---- MODULE Spec2Model ----
(***************************************************************************)
(* Model of the power-state reconciliation engine of discord-azure-boot    *)
(* (src/index.ts): PowerRequest, BootRequest, the command handler          *)
(* Bot.onDiscordCmd and the poller Bot.pollOngoing.                        *)
(*                                                                         *)
(* Every async function of the source is a task that advances between its  *)
(* await points; the steps kept apart are the ones that read or write the  *)
(* document store, so that tasks interleave where the event loop lets      *)
(* them.                                                                   *)
(***************************************************************************)
EXTENDS Integers, Sequences, FiniteSets, TLC

(***************************************************************************)
(* Bounds of the model.                                                    *)
(***************************************************************************)
\* Commands that pass the dedup guard over the life of the store; each has
\* its own interaction id.
MaxCmds == 2
\* Runs of Bot.pollOngoing that may be in flight at the same time.
MaxInflight == 2
\* Tasks (command handlers and per-request poller callbacks) that may be in
\* flight at the same time.
MaxTasks == 2
\* Calls of PowerRequest.poll over the life of the store.
MaxPolls == 2
\* Milliseconds between two readings of the clock.
ClockStep == 1000
\* SpecEst: the longest history of boots and of other requests in the store,
\* the time between two requests of the history and the two durations (ms).
MaxHist == 11
MaxOther == 1
HistGap == 100000
OldDelta == 61000
NewDelta == 2000

(***************************************************************************)
(* Program constants.                                                      *)
(***************************************************************************)
BOOT_CMD_NAME == "boot"
SHUTDOWN_CMD_NAME == "shutdown"
DISCORD_CTRL_INTERACTION == "INTERACTION"

\* limit(10) of the history query of PowerRequest.poll.
HistoryLimit == 10

\* enum VMPowerState
Deallocated == "PowerState/deallocated"
Deallocating == "PowerState/deallocating"
Running == "PowerState/running"
Starting == "PowerState/starting"
Stopped == "PowerState/stopped"
Stopping == "PowerState/stopping"
VMPowerState == {Deallocated, Deallocating, Running, Starting, Stopped, Stopping}

\* The value powerState() resolves with when the VM has no power status.
Undefined == "undefined"
PowerOrUndefined == VMPowerState \cup {Undefined}

\* The results of the status query that Spec draws from: the two targets the
\* commands use, a transitional code and no code at all.
ObservedPowers == {Deallocated, Running, Starting, Undefined}

\* VMConfig values (resourceGroup left out: azureName identifies the VM).
ServerA == [friendlyName |-> "serverA", azureName |-> "vm-a"]
ServerB == [friendlyName |-> "serverB", azureName |-> "vm-b"]
AzureNames == {"vm-a", "vm-b"}

\* The configuration Spec runs with: one VM.
CFG == [vms |-> <<ServerA>>]

\* Values the "server" option of a command may carry: the configured
\* friendly names and one name that is not configured.
OptNames(cfg) == {cfg.vms[i].friendlyName : i \in DOMAIN cfg.vms} \cup {"ghost"}

\* Points of PowerRequest.poll at which an awaited call may reject.
FailPoints == {"none", "status", "history", "action", "edit"}

VARIABLES
  power_requests,  \* collection power_requests, in natural (insertion) order
  boot_requests,   \* collection boot_requests, in insertion order
  cmds,            \* runs of Bot.onDiscordCmd in flight, by interaction id
  nextId,          \* number of interactions received so far
  jobs,            \* per-request units of work of the runs of pollOngoing
  now,             \* last reading of the clock (moment().valueOf())
  last,            \* observation of the step just taken
  saved,           \* stage written by the last completed save, by request
  vmPower,         \* power code the control plane reports, by VM
  commanded,       \* target of the last cloud action issued, by VM
  fired,           \* calls of poll() in a row that issued an action, by request
  proc             \* how far main and Bot.init have come, and what init set up

vars == <<power_requests, boot_requests, cmds, nextId, jobs, now, last,
          saved, vmPower, commanded, fired, proc>>

(***************************************************************************)
(* Optional values are sets with at most one element.                      *)
(***************************************************************************)
None == {}
Some(x) == {x}
The(s) == CHOOSE x \in s : TRUE

RECURSIVE SumOver(_, _)
SumOver(S, f) ==
  IF S = {} THEN 0
  ELSE LET x == CHOOSE y \in S : TRUE
       IN  f[x] + SumOver(S \ {x}, f)

(***************************************************************************)
(* Power states.                                                           *)
(***************************************************************************)
vmStateFromPower(power) ==
  [ code |-> power,
    friendlyName |->
      CASE power = Deallocated -> "Turned Off"
        [] power = Deallocating -> "Turning Off"
        [] power = Running -> "Running"
        [] power = Starting -> "Starting"
        [] power = Stopped -> "Stopped"
        [] power = Stopping -> "Stopping"
        [] OTHER -> "Unknown",
    terminal |-> ~(power = Deallocating \/ power = Starting \/ power = Stopping) ]

nonTerminalForPower(power) ==
  CASE power = Deallocated -> Deallocating
    [] power = Running -> Starting
    [] power = Stopped -> Stopping

\* ActionFor with the calls of Deallocated and Running exchanged.
ActionForSwapped(target) ==
  CASE target = Deallocated -> "beginStart"
    [] target = Running -> "beginDeallocate"
    [] target = Stopped -> "beginPowerOff"
    [] OTHER -> "none"

\* The cloud call the switch on target_power makes (index.ts 669-679).
ActionFor(target) ==
  CASE target = Deallocated -> "beginDeallocate"
    [] target = Running -> "beginStart"
    [] target = Stopped -> "beginPowerOff"
    [] OTHER -> "none"

(***************************************************************************)
(* PowerRequest documents and the power_requests collection.               *)
(***************************************************************************)
\* new PowerRequest(bot, ctrlMsgID, vmCfg, targetPower): the .data field.
NewPowerRequest(ctrlMsgID, vmCfg, targetPower) ==
  [ ctrl_msg_id |-> ctrlMsgID,
    vm_cfg |-> vmCfg,
    target_power |-> targetPower,
    stage |-> [ current |-> "requested",
                flip_flop |-> TRUE,
                in_progress |-> None,
                success |-> None,
                error |-> None ] ]

\* ConstructorThrows without the check of the target.
ConstructorAccepts(targetPower) == FALSE

\* Lines 471-475: the constructor throws when the target is not terminal.
ConstructorThrows(targetPower) ==
  vmStateFromPower(targetPower).terminal = FALSE

\* Positions of the documents of a collection that match a primary key.
PkMatches(coll, id) == {i \in DOMAIN coll : coll[i].ctrl_msg_id = id}

\* findOne(pk): the first matching document in natural order, if any.
FindOne(coll, id) ==
  IF PkMatches(coll, id) = {} THEN None
  ELSE Some(coll[CHOOSE i \in PkMatches(coll, id) :
                   \A k \in PkMatches(coll, id) : i <= k])

\* UpdateOneUpsert as an insert: the primary key is not looked up.
UpdateOneInsert(coll, data) == Append(coll, data)

\* updateOne(pk, {$set: data}, {upsert: true}).
UpdateOneUpsert(coll, data) ==
  LET m == PkMatches(coll, data.ctrl_msg_id)
  IN  IF m = {} THEN Append(coll, data)
      ELSE LET i == CHOOSE k \in m : \A l \in m : k <= l
           IN  [coll EXCEPT ![i] = data]

\* OngoingCount without the filter on the VM.
OngoingCountAnyVM(coll, vmCfg) ==
  Cardinality({i \in DOMAIN coll : coll[i].stage.current = "in_progress"})

\* PowerRequest.OngoingCount(bot, vmCfg).
OngoingCount(coll, vmCfg) ==
  Cardinality({i \in DOMAIN coll :
                 /\ coll[i].vm_cfg.friendlyName = vmCfg.friendlyName
                 /\ coll[i].stage.current = "in_progress"})

\* The filter of Bot.pollOngoing: stage.current in [requested, in_progress].
OngoingIds(coll) ==
  {coll[i].ctrl_msg_id : i \in {k \in DOMAIN coll :
      coll[k].stage.current \in {"requested", "in_progress"}}}

NonTerminalStage(s) == s \in {"requested", "in_progress"}
TerminalStage(s) == s \in {"success", "error"}

(***************************************************************************)
(* PowerRequest.poll (index.ts 543-708).                                   *)
(***************************************************************************)
ErrUserMsg == "an unexpected error occurred"
\* The exception object the catch block stores as stage.error.internal.
ErrCaught == "e"

\* moment.utc(moment.unix(ms/1000)).format("mm:ss"): minutes and seconds
\* of a duration in milliseconds, the hours and the milliseconds dropped.
FormatMMSS(ms) == <<(ms \div 60000) % 60, (ms \div 1000) % 60>>

\* FlipFlop that leaves the flag as it is.
FlipFlopKept(data) == data

\* Line 546: the flip flop is inverted first.
FlipFlop(data) == [data EXCEPT !.stage.flip_flop = ~@]

\* MarkInProgress that also overwrites the target of the request.
MarkInProgressRetarget(data, powerState, t) ==
  IF data.stage.current = "requested"
  THEN [data EXCEPT !.target_power = Deallocated,
                    !.stage.current = "in_progress",
                    !.stage.in_progress =
                       Some([time |-> t, start_power |-> powerState])]
  ELSE data

\* Lines 554-561: a requested request is marked in_progress.
MarkInProgress(data, powerState, t) ==
  IF data.stage.current = "requested"
  THEN [data EXCEPT !.stage.current = "in_progress",
                    !.stage.in_progress =
                       Some([time |-> t, start_power |-> powerState])]
  ELSE data

\* MarkSuccess that records the time and leaves stage.current as it is.
MarkSuccessTimeOnly(data, t) ==
  [data EXCEPT !.stage.success = Some([time |-> t])]

\* Lines 649-652: the request is marked success.
MarkSuccess(data, t) ==
  [data EXCEPT !.stage.current = "success",
               !.stage.success = Some([time |-> t])]

\* The value a document holds at stage.in_progress.start_power; a missing
\* field and an undefined one both match a query for undefined.
StartPowerOf(doc) ==
  IF doc.stage.in_progress = None THEN Undefined
  ELSE The(doc.stage.in_progress).start_power

\* Positions matched by the filter of the history query (line 602).
HistoryMatches(coll, data) ==
  {i \in DOMAIN coll :
     /\ coll[i].vm_cfg = data.vm_cfg
     /\ coll[i].stage.current = "success"
     /\ StartPowerOf(coll[i]) = StartPowerOf(data)}

Min(a, b) == IF a <= b THEN a ELSE b

\* find(filter).limit(10).toArray() without a sort: any HistoryLimit of
\* the matching documents (all of them when there are fewer).
HistoryResults(coll, data) ==
  LET m == HistoryMatches(coll, data)
  IN  {S \in SUBSET m : Cardinality(S) = Min(Cardinality(m), HistoryLimit)}

\* Lines 605-607: map to success.time - in_progress.time, then reduce.
TotalDiffs(coll, otherReqs) ==
  SumOver(otherReqs,
          [i \in otherReqs |->
             The(coll[i].stage.success).time
               - The(coll[i].stage.in_progress).time])

\* Lines 604-613: the estimate shown, if any.
Estimate(coll, otherReqs) ==
  IF Cardinality(otherReqs) > 0
  THEN Some(FormatMMSS(TotalDiffs(coll, otherReqs) \div Cardinality(otherReqs)))
  ELSE None

\* PollCatch without the inner try: a failed edit of the catch block
\* escapes poll().
PollCatchRethrow(data, point, action, est, t, errEditOk) ==
  [ data |-> [data EXCEPT !.stage.current = "error",
                          !.stage.error =
                             Some([time |-> t, internal |-> ErrCaught,
                                   user |-> ErrUserMsg])],
    action |-> action,
    failed |-> point,
    shown |-> IF errEditOk THEN "error" ELSE "none",
    est |-> est,
    escaped |-> ~errEditOk ]

\* Lines 687-707: the catch block; the edit that tells the user may fail
\* as well and is only logged.
PollCatch(data, point, action, est, t, errEditOk) ==
  [ data |-> [data EXCEPT !.stage.current = "error",
                          !.stage.error =
                             Some([time |-> t, internal |-> ErrCaught,
                                   user |-> ErrUserMsg])],
    action |-> action,
    failed |-> point,
    shown |-> IF errEditOk THEN "error" ELSE "none",
    est |-> est,
    escaped |-> FALSE ]

PollReturn(data, action, shown, est) ==
  [ data |-> data, action |-> action, failed |-> "none", shown |-> shown,
    est |-> est, escaped |-> FALSE ]

\* poll() that marks the request in_progress before the status query.
PollMarkFirst(data, powerState, fail, errEditOk, t, coll, otherReqs) ==
  LET d2 == MarkInProgress(FlipFlop(data), powerState, t)
  IN  IF fail = "status"
        THEN PollCatch(d2, "status", "none", None, t, errEditOk)
      ELSE PollReturn(d2, "none", "wait", None)

\* One call of poll() on the request data, where powerState is what the
\* status query resolves with, fail the awaited call that rejects (if it
\* is reached), errEditOk whether the edit of the catch block succeeds, t
\* the clock reading, coll the collection and otherReqs the positions the
\* history query returns.
Poll(data, powerState, fail, errEditOk, t, coll, otherReqs) ==
  LET d1 == FlipFlop(data)
      d2 == MarkInProgress(d1, powerState, t)
      hasInProgress == d2.stage.in_progress # None
      mapThrows == \E i \in otherReqs :
                      \/ coll[i].stage.in_progress = None
                      \/ coll[i].stage.success = None
      est == IF hasInProgress /\ ~mapThrows
             THEN Estimate(coll, otherReqs) ELSE None
      vmStatePower == vmStateFromPower(powerState)
      d3 == MarkSuccess(d2, t)
      call == ActionFor(d2.target_power)
  IN  IF fail = "status"
        THEN PollCatch(d1, "status", "none", None, t, errEditOk)
      ELSE IF hasInProgress /\ (fail = "history" \/ mapThrows)
        THEN PollCatch(d2, "history", "none", None, t, errEditOk)
      ELSE IF powerState # Undefined /\ vmStatePower.terminal = FALSE
        THEN IF fail = "edit"
             THEN PollCatch(d2, "edit", "none", est, t, errEditOk)
             ELSE PollReturn(d2, "none", "wait", est)
      ELSE IF powerState # Undefined /\ powerState = d2.target_power
        THEN IF fail = "edit"
             THEN PollCatch(d3, "edit", "none", est, t, errEditOk)
             ELSE PollReturn(d3, "none", "done", est)
      ELSE IF fail = "action"
        THEN PollCatch(d2, "action", call, est, t, errEditOk)
      ELSE IF fail = "edit"
        THEN PollCatch(d2, "edit", call, est, t, errEditOk)
      ELSE PollReturn(d2, call, "acting", est)

\* The clock reading a call of poll() may take: later than every reading
\* before it.  The bound on the calls of poll() is a bound on the clock.
ClockReadings == {t \in {now + ClockStep} : t <= MaxPolls * ClockStep}

\* The observation a call of poll() leaves in `last`.
PollObs(by, id, before, powerState, res) ==
  [ kind |-> "poll", by |-> by, id |-> id, before |-> before,
    power |-> powerState, res |-> res ]

(***************************************************************************)
(* Initial state: both collections empty, nothing in flight.               *)
(***************************************************************************)
\* `last` after a step that no property observes.
NoObs == [kind |-> "none"]

\* The process once Bot.init has returned: the store is connected, the
\* command handler is registered, the poller interval is set and main waits
\* for an exit signal.
Initialised == [pc |-> "waitForExit", mongo |-> TRUE, handler |-> TRUE,
                interval |-> TRUE, preflightFailed |-> FALSE]

Init ==
  /\ power_requests = <<>>
  /\ boot_requests = <<>>
  /\ cmds = {}
  /\ nextId = 0
  /\ jobs = {}
  /\ now = 0
  /\ last = NoObs
  /\ saved = [i \in 1..MaxCmds |-> "none"]
  /\ vmPower = [v \in AzureNames |-> Deallocated]
  /\ commanded = [v \in AzureNames |-> "none"]
  /\ fired = [i \in 1..MaxCmds |-> 0]
  /\ proc = Initialised

(***************************************************************************)
(* Bot.onDiscordCmd (index.ts 1180-1241).  The interaction id is the       *)
(* identity of the control message.                                        *)
(***************************************************************************)
\* vmCfgByFriendlyName that takes the first match when there are several.
vmCfgByFriendlyNameFirst(cfg, name) ==
  LET vmSearch == SelectSeq(cfg.vms, LAMBDA vm : vm.friendlyName = name)
  IN  IF Len(vmSearch) = 0 THEN None ELSE Some(vmSearch[1])

\* vmCfgByFriendlyName(cfg, name): the configured VM of that name, or nothing
\* when the lookup throws (no VM or more than one VM of that name).
vmCfgByFriendlyName(cfg, name) ==
  LET vmSearch == SelectSeq(cfg.vms, LAMBDA vm : vm.friendlyName = name)
  IN  IF Len(vmSearch) = 0 THEN None
      ELSE IF Len(vmSearch) > 1 THEN None
      ELSE Some(vmSearch[1])

\* BootRequestData with the stage left as the constructor set it.
BootRequestDataRequested(vmCfg, powerRequestId) ==
  [ vm_cfg |-> vmCfg,
    stage |-> [current |-> "requested", power_request_id |-> powerRequestId] ]

\* new BootRequest(...) after initBoot has set the stage (lines 823-830,
\* 842-845).
BootRequestData(vmCfg, powerRequestId) ==
  [ vm_cfg |-> vmCfg,
    stage |-> [current |-> "booting", power_request_id |-> powerRequestId] ]

\* BootRequest.poll (lines 880-887): the body holds comments only, the
\* boot request is left as it is.
BootRequestPoll(data) == data

\* Lines 1186-1199 and 1217-1230, for one interaction: the option is
\* resolved (a failed lookup rejects the handler before anything else), the
\* reply is deferred and the dedup guard counts.  Nothing before the count
\* reads or writes a collection, so the step is the count.  When the guard
\* lets the command through, the handler goes on to BootRequest.initBoot or,
\* on the shutdown path, to the poll of a new PowerRequest (line 1233).
\* `replied` tells whether the handler has sent the user a reply by then:
\* the busy message of lines 1197 and 1228; a failed lookup throws out of
\* the handler before any call on the interaction.
CmdCount(cfg, cmd, optName) ==
  /\ nextId < MaxCmds
  /\ Cardinality(cmds) + Cardinality(jobs) < MaxTasks
  /\ LET id == nextId + 1
         vmCfg == vmCfgByFriendlyName(cfg, optName)
         otherReqs == OngoingCount(power_requests, The(vmCfg))
         nonTerminal == \E i \in DOMAIN power_requests :
                           /\ power_requests[i].vm_cfg.friendlyName
                                = The(vmCfg).friendlyName
                           /\ NonTerminalStage(power_requests[i].stage.current)
     IN  IF vmCfg = None
         THEN /\ UNCHANGED <<cmds, nextId, proc>>
              /\ last' = [kind |-> "count", id |-> id, cmd |-> cmd,
                          vm |-> optName, nonTerminal |-> FALSE,
                          outcome |-> "lookup_error", replied |-> FALSE]
         ELSE /\ nextId' = IF otherReqs > 0 THEN nextId ELSE id
              /\ last' = [kind |-> "count", id |-> id, cmd |-> cmd,
                          vm |-> optName, nonTerminal |-> nonTerminal,
                          outcome |-> IF otherReqs > 0 THEN "busy"
                                      ELSE "accepted",
                          replied |-> otherReqs > 0]
              /\ cmds' =
                   IF otherReqs > 0 THEN cmds
                   ELSE IF cmd = BOOT_CMD_NAME
                   THEN cmds \cup {[id |-> id, pc |-> "initBoot", cmd |-> cmd,
                                    vm |-> The(vmCfg), data |-> None]}
                   ELSE cmds \cup {[id |-> id, pc |-> "poll", cmd |-> cmd,
                                    vm |-> The(vmCfg),
                                    data |-> Some(NewPowerRequest(
                                               id, The(vmCfg), Deallocated))]}
  /\ UNCHANGED <<power_requests, boot_requests, jobs, now, saved,
                 vmPower, commanded, fired, proc>>

\* Line 1234: the shutdown path polls the new request once.
CmdPollAt(c, powerState, fail, errEditOk, t) ==
  /\ c \in cmds
  /\ c.pc = "poll"
  /\ \E otherReqs \in HistoryResults(power_requests,
                        MarkInProgress(The(c.data), powerState, t)) :
       LET res == Poll(The(c.data), powerState, fail, errEditOk, t,
                       power_requests, otherReqs)
       IN  /\ now' = t
           /\ last' = PollObs("cmd", c.id, The(c.data), powerState, res)
           /\ cmds' = IF res.escaped THEN cmds \ {c}
                      ELSE (cmds \ {c}) \cup
                             {[c EXCEPT !.pc = "save",
                                        !.data = Some(res.data)]}
  /\ UNCHANGED <<power_requests, boot_requests, nextId, jobs, saved, proc>>

\* The same with the clock reading drawn from ClockReadings.
CmdPollWith(c, powerState, fail, errEditOk) ==
  \E t \in ClockReadings : CmdPollAt(c, powerState, fail, errEditOk, t)

\* Line 1235: the shutdown path saves the request.
CmdSave(c) ==
  /\ c \in cmds
  /\ c.pc = "save"
  /\ power_requests' = UpdateOneUpsert(power_requests, The(c.data))
  /\ saved' = [saved EXCEPT ![c.id] = The(c.data).stage.current]
  /\ cmds' = cmds \ {c}
  /\ last' = NoObs
  /\ UNCHANGED <<boot_requests, nextId, jobs, now, vmPower, commanded, fired,
                 proc>>

\* Lines 1207-1213: BootRequest.initBoot saves a new PowerRequest targeting
\* Running; BootRequest.poll does nothing (lines 880-887).
CmdInitBoot(c) ==
  /\ c \in cmds
  /\ c.pc = "initBoot"
  /\ LET powerReq == NewPowerRequest(c.id, c.vm, Running)
     IN  /\ power_requests' = UpdateOneUpsert(power_requests, powerReq)
         /\ saved' = [saved EXCEPT ![c.id] = powerReq.stage.current]
         /\ cmds' = (cmds \ {c}) \cup
                      {[c EXCEPT !.pc = "saveBoot",
                                 !.data = Some(BootRequestPoll(
                                              BootRequestData(c.vm, c.id)))]}
         /\ last' = NoObs
  /\ UNCHANGED <<boot_requests, nextId, jobs, now, vmPower, commanded, fired,
                 proc>>

\* Line 1214: BootRequest.save inserts the boot request.
CmdSaveBoot(c) ==
  /\ c \in cmds
  /\ c.pc = "saveBoot"
  /\ boot_requests' = Append(boot_requests, The(c.data))
  /\ cmds' = cmds \ {c}
  /\ last' = NoObs
  /\ UNCHANGED <<power_requests, nextId, jobs, now, saved,
                 vmPower, commanded, fired, proc>>

(***************************************************************************)
(* Bot.pollOngoing (index.ts 1246-1259), run by setInterval (line 1141):   *)
(* the timer starts a run whether or not an earlier run has settled.       *)
(***************************************************************************)
TicksInFlight == {j.tick : j \in jobs}

\* Line 1247, and the start of the async callbacks of line 1249.  A run that
\* finds no document has no effect.
PollOngoing ==
  /\ OngoingIds(power_requests) # {}
  /\ Cardinality(cmds) + Cardinality(jobs)
       + Cardinality(OngoingIds(power_requests)) <= MaxTasks
  /\ \E slot \in 1..MaxInflight :
       /\ slot \notin TicksInFlight
       /\ \A k \in 1..(slot - 1) : k \in TicksInFlight
       /\ jobs' = jobs \cup {[tick |-> slot, id |-> i, pc |-> "load",
                              data |-> None] : i \in OngoingIds(power_requests)}
       /\ last' = NoObs
  /\ UNCHANGED <<power_requests, boot_requests, cmds, nextId, now, saved,
                 vmPower, commanded, fired, proc>>

\* Lines 1250-1255: the request is built again, loaded by primary key and
\* polled.  The load is the step's read of the collection; between the load
\* and the end of poll() the job works on its own copy of the data.
JobPollAt(j, powerState, fail, errEditOk, t) ==
  /\ j \in jobs
  /\ j.pc = "load"
  /\ FindOne(power_requests, j.id) # None
  /\ LET data == The(FindOne(power_requests, j.id))
     IN  \E otherReqs \in HistoryResults(power_requests,
                            MarkInProgress(data, powerState, t)) :
           LET res == Poll(data, powerState, fail, errEditOk, t,
                           power_requests, otherReqs)
           IN  /\ now' = t
               /\ last' = PollObs("poller", j.id, data, powerState, res)
               /\ jobs' = IF res.escaped THEN jobs \ {j}
                          ELSE (jobs \ {j}) \cup
                                 {[j EXCEPT !.pc = "save",
                                            !.data = Some(res.data)]}
  /\ UNCHANGED <<power_requests, boot_requests, cmds, nextId, saved, proc>>

\* The same with the clock reading drawn from ClockReadings.
JobPollWith(j, powerState, fail, errEditOk) ==
  \E t \in ClockReadings : JobPollAt(j, powerState, fail, errEditOk, t)

\* Line 1257.
JobSave(j) ==
  /\ j \in jobs
  /\ j.pc = "save"
  /\ power_requests' = UpdateOneUpsert(power_requests, The(j.data))
  /\ saved' = [saved EXCEPT ![j.id] = The(j.data).stage.current]
  /\ jobs' = jobs \ {j}
  /\ last' = NoObs
  /\ UNCHANGED <<boot_requests, cmds, nextId, now, vmPower, commanded, fired,
                 proc>>

(***************************************************************************)
(* The process stops and is started again.  On SIGINT or SIGTERM main goes  *)
(* from waitForExit to cleanup (clearInterval, mongoClient.close() not      *)
(* awaited) and to process.exit(0) (lines 1148-1154, 1291-1312) without a   *)
(* turn of the event loop in which an awaited call could resolve; a crash   *)
(* stops it as abruptly.  Whatever was in flight is lost, the collections   *)
(* stay.                                                                    *)
(***************************************************************************)
Restart ==
  /\ cmds # {} \/ jobs # {}
  /\ cmds' = {}
  /\ jobs' = {}
  /\ last' = [kind |-> "restart"]
  /\ UNCHANGED <<power_requests, boot_requests, nextId, now, saved,
                 vmPower, commanded, fired, proc>>

(***************************************************************************)
(* Spec: the control plane is unconstrained, every status query may        *)
(* resolve with any power code or with none, or reject.                    *)
(***************************************************************************)
Count == \E cmd \in {BOOT_CMD_NAME, SHUTDOWN_CMD_NAME}, optName \in OptNames(CFG) :
           CmdCount(CFG, cmd, optName)
CmdPoll == \E c \in cmds, powerState \in ObservedPowers,
              fail \in FailPoints, errEditOk \in BOOLEAN :
             /\ CmdPollWith(c, powerState, fail, errEditOk)
             /\ UNCHANGED <<vmPower, commanded, fired, proc>>
Save == \E c \in cmds : CmdSave(c)
InitBoot == \E c \in cmds : CmdInitBoot(c)
SaveBoot == \E c \in cmds : CmdSaveBoot(c)
JobPoll == \E j \in jobs, powerState \in ObservedPowers,
              fail \in FailPoints, errEditOk \in BOOLEAN :
             /\ JobPollWith(j, powerState, fail, errEditOk)
             /\ UNCHANGED <<vmPower, commanded, fired, proc>>
JobSaveStep == \E j \in jobs : JobSave(j)

Next ==
  \/ Count
  \/ CmdPoll
  \/ Save
  \/ InitBoot
  \/ SaveBoot
  \/ PollOngoing
  \/ JobPoll
  \/ JobSaveStep
  \/ Restart

Spec == Init /\ [][Next]_vars

(***************************************************************************)
(* SpecEst: the poller at work on one boot request that is in_progress,    *)
(* in a store that holds a history of finished requests of the same VM.    *)
(* The clock reads 0 when the process starts; the documents of the history *)
(* carry the (negative) times of earlier runs.                             *)
(***************************************************************************)
\* A finished request as poll() and save() leave it: in_progress at tStart
\* with the power observed then, success delta later.
HistoryDoc(id, vmCfg, startPower, targetPower, tStart, delta) ==
  [ ctrl_msg_id |-> id,
    vm_cfg |-> vmCfg,
    target_power |-> targetPower,
    stage |-> [ current |-> "success",
                flip_flop |-> FALSE,
                in_progress |-> Some([time |-> tStart,
                                      start_power |-> startPower]),
                success |-> Some([time |-> tStart + delta]),
                error |-> None ] ]

\* The store after k shutdown commands given while the VM was deallocated
\* already (in_progress and success in the same tick), then n boots from
\* deallocated, the first of which took OldDelta and the others NewDelta,
\* then the boot command whose request the poller has marked in_progress.
\* Documents are in the order of their insertion, HistGap apart.
EstStore(k, n) ==
  [ p \in 1..(k + n + 1) |->
      LET tStart == 0 - (k + n + 1 - p) * HistGap
      IN  IF p <= k
            THEN HistoryDoc(p, ServerA, Deallocated, Deallocated, tStart, 0)
          ELSE IF p <= k + n
            THEN HistoryDoc(p, ServerA, Deallocated, Running, tStart,
                            IF p = k + 1 THEN OldDelta ELSE NewDelta)
          ELSE [NewPowerRequest(p, ServerA, Running) EXCEPT
                  !.stage.current = "in_progress",
                  !.stage.flip_flop = FALSE,
                  !.stage.in_progress =
                     Some([time |-> 0, start_power |-> Deallocated])] ]

InitEst ==
  /\ \E k \in 0..MaxOther, n \in 0..MaxHist : power_requests = EstStore(k, n)
  /\ boot_requests = <<>>
  /\ cmds = {}
  /\ nextId = Len(power_requests)
  /\ jobs = {}
  /\ now = 0
  /\ last = NoObs
  /\ saved = [i \in 1..Len(power_requests) |->
                power_requests[i].stage.current]
  /\ vmPower = [v \in AzureNames |-> Deallocated]
  /\ commanded = [v \in AzureNames |-> "none"]
  /\ fired = [i \in 1..MaxCmds |-> 0]
  /\ proc = Initialised

NextEst ==
  \/ PollOngoing
  \/ JobPoll
  \/ JobSaveStep

SpecEst == InitEst /\ [][NextEst]_vars

(***************************************************************************)
(* SpecLive: the bot together with the VM it commands.  The status query   *)
(* reports the power state of the VM, every call is answered, the VM goes  *)
(* to the state the last issued action commands, through the non-terminal  *)
(* state on the way.  The process keeps running and the timer keeps        *)
(* firing.  The clock stands still: times have no part in the control flow *)
(* of poll().                                                              *)
(***************************************************************************)
\* The terminal state a cloud action drives the VM to.
TargetOfAction(action) ==
  CASE action = "beginDeallocate" -> Deallocated
    [] action = "beginStart" -> Running
    [] action = "beginPowerOff" -> Stopped

\* The terminal state a VM in a non-terminal state is on its way to.
TerminalForPower(power) ==
  CASE power = Deallocating -> Deallocated
    [] power = Starting -> Running
    [] power = Stopping -> Stopped

\* The VM after a call of poll() that issued `action` (or none) on it.
Commanded(azureName, action) ==
  IF action = "none" THEN commanded
  ELSE [commanded EXCEPT ![azureName] = TargetOfAction(action)]

\* The count of calls of poll() in a row, on the request id, that issued a
\* cloud action, after one more call.
Fired(id, action) ==
  [fired EXCEPT ![id] = IF action = "none" THEN 0 ELSE Min(@ + 1, 2)]

\* One step of the VM: an operation under way completes; a VM at rest in a
\* state other than the commanded one starts the commanded operation.
VMStep ==
  /\ \E v \in AzureNames :
       \/ /\ ~vmStateFromPower(vmPower[v]).terminal
          /\ vmPower' = [vmPower EXCEPT ![v] = TerminalForPower(vmPower[v])]
       \/ /\ vmStateFromPower(vmPower[v]).terminal
          /\ commanded[v] \in VMPowerState
          /\ commanded[v] # vmPower[v]
          /\ vmPower' = [vmPower EXCEPT
                           ![v] = nonTerminalForPower(commanded[v])]
  /\ last' = NoObs
  /\ UNCHANGED <<power_requests, boot_requests, cmds, nextId, jobs, now,
                 saved, commanded, fired, proc>>

CmdPollLive ==
  \E c \in cmds :
    /\ c.pc = "poll"
    /\ CmdPollAt(c, vmPower[c.vm.azureName], "none", TRUE, now)
    /\ commanded' = Commanded(c.vm.azureName, last'.res.action)
    /\ fired' = Fired(c.id, last'.res.action)
    /\ UNCHANGED vmPower

JobPollLive ==
  \E j \in jobs :
    /\ j.pc = "load"
    /\ LET v == The(FindOne(power_requests, j.id)).vm_cfg.azureName
       IN  /\ JobPollAt(j, vmPower[v], "none", TRUE, now)
           /\ commanded' = Commanded(v, last'.res.action)
           /\ fired' = Fired(j.id, last'.res.action)
    /\ UNCHANGED vmPower

NextLive ==
  \/ Count
  \/ CmdPollLive
  \/ Save
  \/ InitBoot
  \/ SaveBoot
  \/ PollOngoing
  \/ JobPollLive
  \/ JobSaveStep
  \/ VMStep

\* The timer fires again and again, every handler and callback that can go
\* on does, and so does the VM.  Nothing obliges a user to give a command.
FairLive ==
  /\ WF_vars(CmdPollLive)
  /\ WF_vars(Save)
  /\ WF_vars(InitBoot)
  /\ WF_vars(SaveBoot)
  /\ WF_vars(PollOngoing)
  /\ WF_vars(JobPollLive)
  /\ WF_vars(JobSaveStep)
  /\ WF_vars(VMStep)

SpecLive == Init /\ [][NextLive]_vars /\ FairLive

(***************************************************************************)
(* SpecCtor: the constructor of PowerRequest applied to every power state. *)
(* The caller is the command handler from the construction on (lines       *)
(* 1233-1235): a constructor that throws rejects the handler, otherwise    *)
(* the request is polled and saved, and the poller takes over.             *)
(***************************************************************************)
Construct(vmCfg, targetPower) ==
  /\ nextId < MaxCmds
  /\ Cardinality(cmds) + Cardinality(jobs) < MaxTasks
  /\ LET id == nextId + 1
         threw == ConstructorThrows(targetPower)
     IN  /\ nextId' = id
         /\ last' = [kind |-> "construct", id |-> id,
                     target |-> targetPower, threw |-> threw]
         /\ cmds' = IF threw THEN cmds
                    ELSE cmds \cup
                           {[id |-> id, pc |-> "poll",
                             cmd |-> SHUTDOWN_CMD_NAME, vm |-> vmCfg,
                             data |-> Some(NewPowerRequest(id, vmCfg,
                                                           targetPower))]}
  /\ UNCHANGED <<power_requests, boot_requests, jobs, now, saved,
                 vmPower, commanded, fired, proc>>

ConstructAny == \E targetPower \in VMPowerState : Construct(ServerA, targetPower)

NextCtor ==
  \/ ConstructAny
  \/ CmdPoll
  \/ Save
  \/ PollOngoing
  \/ JobPoll
  \/ JobSaveStep

SpecCtor == Init /\ [][NextCtor]_vars

(***************************************************************************)
(* SpecEdit: DiscordCtrlMsg.edit applied to both kinds of identity.        *)
(* Discord is the environment: an HTTP edit either gets no response (the   *)
(* fetch promise rejects) or a response with a status, and Discord has     *)
(* applied the edit exactly when it answers with an okay status; the       *)
(* client caches resolve a guild, a channel and a message or return        *)
(* undefined.  The observation records the text the control message        *)
(* showed before the call and shows after it.                              *)
(***************************************************************************)
DISCORD_CTRL_TXT_MSG == "TXT_MSG"

HttpOkMin == 200
HttpOkEnd == 300
StatusSlack == 1

HttpStatuses == (HttpOkMin - StatusSlack)..(HttpOkEnd - 1 + StatusSlack)

\* What the HTTP call can come to: no response, or a response status.
HttpOutcomes == {None} \cup {Some(st) : st \in HttpStatuses}

Contents == {"progress", "done"}

HttpOkFrom(status) == ~(status < HttpOkMin)

HttpOk(status) == ~(status < HttpOkMin \/ status >= HttpOkEnd)

\* DiscordInteraction.fetch: throws when the request is rejected or the
\* response status is not okay.
DiscordInteractionFetch(http) ==
  IF http = None THEN [threw |-> TRUE]
  ELSE [threw |-> ~HttpOk(The(http))]

\* DiscordInteraction.editInitResp: one PATCH of the original response.
EditInitResp(http, content, shown) ==
  LET resp == DiscordInteractionFetch(http)
  IN  [threw |-> resp.threw,
       shown |-> IF resp.threw THEN shown ELSE content]

\* The channel-message branch: guild, channel, text check, message, edit.
EditTxtMsg(env, content, shown) ==
  IF ~env.guild THEN [threw |-> TRUE, shown |-> shown]
  ELSE IF ~env.channel THEN [threw |-> TRUE, shown |-> shown]
  ELSE IF env.isText
         THEN IF ~env.msg THEN [threw |-> TRUE, shown |-> shown]
              ELSE IF ~env.msgEditOk THEN [threw |-> TRUE, shown |-> shown]
              ELSE [threw |-> FALSE, shown |-> content]
  ELSE [threw |-> TRUE, shown |-> shown]

CtrlMsgEdit(ctrl_type, env, content, shown) ==
  IF ctrl_type = DISCORD_CTRL_TXT_MSG THEN EditTxtMsg(env, content, shown)
  ELSE EditInitResp(env.http, content, shown)

ShownNow == IF last.kind = "edit" THEN last.res.shown ELSE "deferred"

Edit(ctrl_type, env, content) ==
  /\ last' = [kind |-> "edit", ctrl_type |-> ctrl_type, env |-> env,
              content |-> content, shown |-> ShownNow,
              res |-> CtrlMsgEdit(ctrl_type, env, content, ShownNow)]
  /\ UNCHANGED <<power_requests, boot_requests, cmds, nextId, jobs, now,
                 saved, vmPower, commanded, fired, proc>>

EditInteraction ==
  \E http \in HttpOutcomes, content \in Contents :
    Edit(DISCORD_CTRL_INTERACTION,
         [http |-> http, guild |-> TRUE, channel |-> TRUE, isText |-> TRUE,
          msg |-> TRUE, msgEditOk |-> TRUE], content)

EditChannelMessage ==
  \E guild, channel, isText, msg, msgEditOk \in BOOLEAN, content \in Contents :
    Edit(DISCORD_CTRL_TXT_MSG,
         [http |-> None, guild |-> guild, channel |-> channel,
          isText |-> isText, msg |-> msg, msgEditOk |-> msgEditOk], content)

NextEdit ==
  \/ EditInteraction
  \/ EditChannelMessage

SpecEdit == Init /\ [][NextEdit]_vars

(***************************************************************************)
(* SpecStart: main from the start of the process.  Bot.init logs in to     *)
(* Azure, looks up every configured VM, connects to MongoDB, registers the *)
(* interaction handler, logs in to Discord, waits for the ready handler    *)
(* and sets the poller interval, in this order; an error thrown by init    *)
(* rejects main, whose catch ends the process.  Azure knows any subset of  *)
(* the VM names.  Commands are handled once the handler is registered and  *)
(* ticks run once the interval is set.                                     *)
(***************************************************************************)
ProcessStart == [pc |-> "login", mongo |-> FALSE, handler |-> FALSE,
                 interval |-> FALSE, preflightFailed |-> FALSE]

\* The configured VMs whose lookup rejects.
Missing(cfg, known) ==
  {i \in DOMAIN cfg.vms : cfg.vms[i].azureName \notin known}

PreflightNeverThrows(cfg, known) == FALSE

\* Promise.all over cfg.vms rejects when one lookup rejects; the catch
\* throws "Failed to find all virtual machines ...".
PreflightThrows(cfg, known) == Missing(cfg, known) # {}

InitStart ==
  /\ power_requests = <<>>
  /\ boot_requests = <<>>
  /\ cmds = {}
  /\ nextId = 0
  /\ jobs = {}
  /\ now = 0
  /\ last = NoObs
  /\ saved = [i \in 1..MaxCmds |-> "none"]
  /\ vmPower = [v \in AzureNames |-> Deallocated]
  /\ commanded = [v \in AzureNames |-> "none"]
  /\ fired = [i \in 1..MaxCmds |-> 0]
  /\ proc = ProcessStart

StartFrame ==
  UNCHANGED <<power_requests, boot_requests, cmds, nextId, jobs, now, last,
              saved, vmPower, commanded, fired>>

\* main's catch: process.exit(1).
Exited == [proc EXCEPT !.pc = "exited"]

AzureLogin ==
  /\ proc.pc = "login"
  /\ \E ok \in BOOLEAN :
       proc' = IF ok THEN [proc EXCEPT !.pc = "preflight"] ELSE Exited
  /\ StartFrame

Preflight ==
  /\ proc.pc = "preflight"
  /\ \E known \in SUBSET AzureNames :
       LET then == IF PreflightThrows(CFG, known) THEN Exited
                   ELSE [proc EXCEPT !.pc = "mongo"]
       IN  proc' = [then EXCEPT !.preflightFailed = Missing(CFG, known) # {}]
  /\ StartFrame

MongoConnect ==
  /\ proc.pc = "mongo"
  /\ \E ok \in BOOLEAN :
       proc' = IF ok THEN [proc EXCEPT !.pc = "discord", !.mongo = TRUE]
               ELSE Exited
  /\ StartFrame

\* discord.on("interaction", ...) and login; init then awaits the promise
\* that only the ready handler resolves.
DiscordLogin ==
  /\ proc.pc = "discord"
  /\ proc' = [proc EXCEPT !.pc = "awaitReady", !.handler = TRUE]
  /\ StartFrame

\* The ready handler registers the commands and resolves the promise; when
\* it throws the promise is never settled and init waits for ever.
DiscordReady ==
  /\ proc.pc = "awaitReady"
  /\ \E ok \in BOOLEAN :
       proc' = [proc EXCEPT !.pc = IF ok THEN "setInterval" ELSE "hung"]
  /\ StartFrame

SetInterval ==
  /\ proc.pc = "setInterval"
  /\ proc' = Initialised
  /\ StartFrame

Alive == proc.pc # "exited"

StartCount == Alive /\ proc.handler /\ Count
StartPollOngoing == Alive /\ proc.interval /\ PollOngoing
StartCmdPoll == Alive /\ CmdPoll
StartSave == Alive /\ Save
StartJobPoll == Alive /\ JobPoll
StartJobSave == Alive /\ JobSaveStep

NextStart ==
  \/ AzureLogin
  \/ Preflight
  \/ MongoConnect
  \/ DiscordLogin
  \/ DiscordReady
  \/ SetInterval
  \/ StartCount
  \/ StartPollOngoing
  \/ StartCmdPoll
  \/ StartSave
  \/ StartJobPoll
  \/ StartJobSave

SpecStart == InitStart /\ [][NextStart]_vars

(***************************************************************************)
(* SpecTick: the store may reject a load or a save of the poller.  The     *)
(* callback of that request rejects, Promise.all rejects and with it the   *)
(* promise of pollOngoing, which the timer of line 1141 drops: the         *)
(* rejection is unhandled.  What the runtime does with an unhandled        *)
(* rejection depends on its version and flags, it either warns and goes on *)
(* or ends the process; both outcomes are drawn.  The callbacks of the     *)
(* other requests are not cancelled by Promise.all.                        *)
(***************************************************************************)
UnhandledRejectionOutcomes == {"warn", "exit"}

JobReject(j, outcome) ==
  /\ j \in jobs
  /\ last' = [kind |-> "reject", id |-> j.id, tick |-> j.tick, pc |-> j.pc,
              outcome |-> outcome]
  /\ IF outcome = "exit"
       THEN /\ jobs' = {}
            /\ cmds' = {}
            /\ proc' = Exited
       ELSE /\ jobs' = jobs \ {j}
            /\ UNCHANGED <<cmds, proc>>
  /\ UNCHANGED <<power_requests, boot_requests, nextId, now, saved,
                 vmPower, commanded, fired>>

JobLoadRejects ==
  \E j \in jobs, outcome \in UnhandledRejectionOutcomes :
    j.pc = "load" /\ JobReject(j, outcome)

JobSaveRejects ==
  \E j \in jobs, outcome \in UnhandledRejectionOutcomes :
    j.pc = "save" /\ JobReject(j, outcome)

NextTick ==
  \/ StartCount
  \/ StartCmdPoll
  \/ StartSave
  \/ StartPollOngoing
  \/ StartJobPoll
  \/ StartJobSave
  \/ Alive /\ JobLoadRejects
  \/ Alive /\ JobSaveRejects

SpecTick == Init /\ [][NextTick]_vars

(***************************************************************************)
(* SpecGuard: the bot configured with two VMs, so that commands for one    *)
(* VM meet requests for the other.                                         *)
(***************************************************************************)
CFG2 == [vms |-> <<ServerA, ServerB>>]

CountTwo ==
  \E cmd \in {BOOT_CMD_NAME, SHUTDOWN_CMD_NAME}, optName \in OptNames(CFG2) :
    CmdCount(CFG2, cmd, optName)

NextGuard ==
  \/ CountTwo
  \/ CmdPoll
  \/ Save
  \/ InitBoot
  \/ SaveBoot
  \/ PollOngoing
  \/ JobPoll
  \/ JobSaveStep

SpecGuard == Init /\ [][NextGuard]_vars

(***************************************************************************)
(* SpecLookup: vmCfgByFriendlyName applied to every configuration of up to *)
(* MaxVms VMs, two of which share a friendly name, and to every name.      *)
(***************************************************************************)
MaxVms == 3

\* A second VM configured under the friendly name of ServerA.
ServerATwin == [friendlyName |-> "serverA", azureName |-> "vm-b"]

ConfigVMs == {ServerA, ServerB, ServerATwin}

Configs ==
  {[vms |-> v] : v \in UNION {[1..n -> ConfigVMs] : n \in 0..MaxVms}}

LookupNames == {"serverA", "serverB", "ghost"}

Lookup ==
  /\ \E cfg \in Configs, name \in LookupNames :
       last' = [kind |-> "lookup", cfg |-> cfg, name |-> name,
                res |-> vmCfgByFriendlyName(cfg, name)]
  /\ UNCHANGED <<power_requests, boot_requests, cmds, nextId, jobs, now,
                 saved, vmPower, commanded, fired, proc>>

NextLookup == Lookup

SpecLookup == Init /\ [][NextLookup]_vars

(***************************************************************************)
(* Properties.                                                             *)
(***************************************************************************)
StageRank(st) ==
  CASE st = "requested" -> 0
    [] st = "in_progress" -> 1
    [] OTHER -> 2

\* The stage a collection holds for a request, "none" when it holds no
\* document of that identity.
StoredStage(coll, id) ==
  IF FindOne(coll, id) = None THEN "none"
  ELSE The(FindOne(coll, id)).stage.current

\* C1: the stage persisted in power_requests only moves forward along
\* requested -> in_progress -> {success, error}, and a stage that is success
\* or error never changes again.
C1_StageOnlyForward ==
  [][\A i \in DOMAIN power_requests :
       /\ i \in DOMAIN power_requests'
       /\ StageRank(power_requests'[i].stage.current)
            >= StageRank(power_requests[i].stage.current)
       /\ TerminalStage(power_requests[i].stage.current)
            => power_requests'[i].stage.current
                 = power_requests[i].stage.current]_vars

\* C2: all the work in flight belongs to one run of pollOngoing (no run
\* starts while an earlier one has unfinished work), so no request is in
\* the hands of two runs at once.
C2_NoOverlappingRuns ==
  /\ \A j1, j2 \in jobs : j1.tick = j2.tick
  /\ \A j1, j2 \in jobs : j1.id = j2.id => j1 = j2

\* C3: a command handled while power_requests holds a request of the same VM
\* in stage requested or in_progress gets the busy reply, and nothing of it
\* stays: no task that could call the cloud, no PowerRequest document and no
\* BootRequest under way.
C3_NonTerminalRejects ==
  (last.kind = "count" /\ last.nonTerminal)
    => /\ last.outcome = "busy"
       /\ \A c \in cmds : c.id # last.id
       /\ FindOne(power_requests, last.id) = None

\* C4: power_requests never holds two requests of one VM in a non-terminal
\* stage.
C4_OneActivePerVM ==
  \A i, k \in DOMAIN power_requests :
    ( /\ power_requests[i].vm_cfg = power_requests[k].vm_cfg
      /\ NonTerminalStage(power_requests[i].stage.current)
      /\ NonTerminalStage(power_requests[k].stage.current) )
      => i = k

\* The task that called poll() last holds the data poll() left, ready to be
\* saved: poll() returned to its caller.
PollReturned ==
  \/ \E j \in jobs : j.id = last.id /\ j.pc = "save"
                       /\ j.data = Some(last.res.data)
  \/ \E c \in cmds : c.id = last.id /\ c.pc = "save"
                       /\ c.data = Some(last.res.data)

\* C5: whichever awaited call of poll() fails (status query, history query,
\* cloud action, edit of the control message), poll() returns normally with
\* stage.current = error and stage.error holding the time, the caught error
\* and the generic user string; this also when the edit that announces the
\* error fails too.
C5_PollNeverThrows ==
  last.kind = "poll"
    => /\ ~last.res.escaped
       /\ PollReturned
       /\ last.res.failed # "none"
            => /\ last.res.data.stage.current = "error"
               /\ last.res.data.stage.error
                    = Some([time |-> now, internal |-> ErrCaught,
                            user |-> ErrUserMsg])

\* Reached: the cloud action call failed and the edit announcing the error
\* failed as well.
C5_Witness ==
  /\ last.kind = "poll"
  /\ last.res.failed = "action"
  /\ last.res.shown = "none"
  /\ PollReturned

\* C6: a call of poll() on a request whose stage is success issues no cloud
\* action, whatever power the VM reports.
C6_SuccessIssuesNothing ==
  (last.kind = "poll" /\ last.before.stage.current = "success")
    => last.res.action = "none"

\* C7: every request that power_requests holds in stage requested or
\* in_progress is, later, held in stage success or error.
C7_EventuallyTerminal ==
  \A id \in 1..MaxCmds :
    NonTerminalStage(StoredStage(power_requests, id))
      ~> TerminalStage(StoredStage(power_requests, id))

\* C8 as stated: when the process stops, at any point, every request a call
\* of poll() has returned for is in power_requests with the stage that call
\* produced.
C8_EveryTickPersisted ==
  [][last'.kind = "restart"
       => /\ \A j \in jobs : j.pc = "save"
               => StoredStage(power_requests', j.id)
                    = The(j.data).stage.current
          /\ \A c \in cmds : c.pc = "save"
               => StoredStage(power_requests', c.id)
                    = The(c.data).stage.current]_vars

\* C8, amended: power_requests holds, for every request, the stage of the
\* last save that completed (one document per ctrl_msg_id, replaced by the
\* upsert), across restarts; and the filter of Bot.pollOngoing selects
\* exactly the requests whose last completed save left a non-terminal stage.
C8_LastSavePersisted ==
  /\ \A id \in DOMAIN saved :
       saved[id] # "none" => StoredStage(power_requests, id) = saved[id]
  /\ OngoingIds(power_requests)
       = {id \in DOMAIN saved : NonTerminalStage(saved[id])}

\* Reached: the process restarted after a tick of the poller saved
\* in_progress over requested; the request is still selected for polling.
C8_Witness ==
  /\ last.kind = "restart"
  /\ \E id \in DOMAIN saved :
       /\ saved[id] = "in_progress"
       /\ id \in OngoingIds(power_requests)
       /\ Cardinality(PkMatches(power_requests, id)) = 1

\* The documents C9 bases the estimate on: the success requests of the same
\* VM with the start power and the target power of the polled request,
\* the polled request itself left out.
SamePair(coll, data) ==
  {i \in DOMAIN coll :
     /\ coll[i].vm_cfg = data.vm_cfg
     /\ coll[i].ctrl_msg_id # data.ctrl_msg_id
     /\ coll[i].stage.current = "success"
     /\ StartPowerOf(coll[i]) = StartPowerOf(data)
     /\ coll[i].target_power = data.target_power}

\* The m of them that finished last (all of them when there are fewer).
MostRecent(coll, S, m) ==
  CHOOSE T \in SUBSET S :
    /\ Cardinality(T) = Min(Cardinality(S), m)
    /\ \A i \in T, k \in S \ T :
         The(coll[i].stage.success).time > The(coll[k].stage.success).time

\* C9: the estimate a call of poll() shows is the mean of success.time -
\* in_progress.time over the HistoryLimit most recent success requests of the
\* same VM, start power and target power (no estimate when there is none);
\* requests of another target power and older ones do not contribute.
C9_EstimateIsRecentMean ==
  (last.kind = "poll" /\ last.res.failed = "none"
     /\ last.res.data.stage.in_progress # None)
    => last.res.est
         = Estimate(power_requests,
                    MostRecent(power_requests,
                               SamePair(power_requests, last.res.data),
                               HistoryLimit))

\* The first tick of the request a boot command created, in a store that
\* holds no other request, with no call of the tick failing.
FirstBootTick ==
  /\ last.kind = "poll"
  /\ last.before.target_power = Running
  /\ last.before.stage.current = "requested"
  /\ Len(power_requests) = 1
  /\ last.res.failed = "none"

\* A following tick of a boot request that observes Running, with no call of
\* the tick failing.
LaterBootTickRunning ==
  /\ last.kind = "poll"
  /\ last.before.target_power = Running
  /\ last.before.stage.current = "in_progress"
  /\ last.power = Running
  /\ last.res.failed = "none"

\* The boot command has created its PowerRequest: a request targeting
\* Running under the command's identity, in stage requested or later.
BootCreatesRunningRequest ==
  \A c \in cmds : c.pc = "saveBoot"
    => /\ FindOne(power_requests, c.id) # None
       /\ The(FindOne(power_requests, c.id)).target_power = Running
       /\ The(FindOne(power_requests, c.id)).vm_cfg = c.vm

C11_HandlerPollsFirst ==
  /\ \A i \in DOMAIN power_requests :
       power_requests[i].stage.current # "requested"
  /\ (last.kind = "poll" /\ last.by = "poller")
       => last.before.stage.current # "requested"

\* The stage of the boot request at position b of boot_requests, "none"
\* when there is no such boot request.
BootStage(b) ==
  IF b \in DOMAIN boot_requests THEN boot_requests[b].stage.current
  ELSE "none"

\* The stage power_requests holds for the child of that boot request.
ChildStage(b) ==
  IF b \in DOMAIN boot_requests
  THEN StoredStage(power_requests, boot_requests[b].stage.power_request_id)
  ELSE "none"

\* C12: a boot request in stage booting follows its child: once the child
\* is success the boot request gets to stage running, once the child is
\* error the boot request gets to stage error.
C12_BootFollowsChild ==
  \A b \in 1..MaxCmds :
    /\ (BootStage(b) = "booting" /\ ChildStage(b) = "success")
         ~> (BootStage(b) = "running")
    /\ (BootStage(b) = "booting" /\ ChildStage(b) = "error")
         ~> (BootStage(b) = "error")

\* C13: every boot request reaches a terminal stage (the machine it started
\* is shut down again when its time is over).
C13_BootEventuallyEnds ==
  \A b \in 1..MaxCmds :
    (BootStage(b) # "none") ~> (BootStage(b) \in {"success", "error"})

TerminalPowers == {Deallocated, Running, Stopped}

\* C14: the constructor of PowerRequest throws for the targets Deallocating,
\* Starting and Stopping and for no other; a request of such a target is
\* never in a handler's or the poller's hands, never polled and never in
\* power_requests.
C14_ConstructorValidates ==
  /\ last.kind = "construct"
       => /\ last.threw <=> last.target \in VMPowerState \ TerminalPowers
          /\ last.threw => /\ \A c \in cmds : c.id # last.id
                           /\ FindOne(power_requests, last.id) = None
  /\ \A c \in cmds : The(c.data).target_power \in TerminalPowers
  /\ \A j \in jobs :
       j.data # None => The(j.data).target_power \in TerminalPowers
  /\ \A i \in DOMAIN power_requests :
       power_requests[i].target_power \in TerminalPowers
  /\ last.kind = "poll" => last.before.target_power \in TerminalPowers

\* Reached: the constructor threw for one target, and a request of the
\* target Stopped was constructed, polled and saved.
C14_Witness ==
  /\ last.kind = "construct"
  /\ last.threw
  /\ last.target = Stopping
  /\ \E i \in DOMAIN power_requests : power_requests[i].target_power = Stopped

\* C15: when the process stops on a signal, no tick of the poller is left
\* unfinished: every callback of pollOngoing that was under way has polled
\* and saved before the connection is closed and the process exits.
C15_GracefulStop ==
  [][last'.kind = "restart" => jobs = {}]_vars

\* C16: no request has its cloud action issued by two calls of poll() in a
\* row (the handler's and the poller's, or two of the poller's).
C16_NoDoubleFire ==
  \A id \in DOMAIN fired : fired[id] < 2

\* C17: a command that fails before a PowerRequest is created (the VM name
\* does not resolve, or the VM is busy) is answered to the user, and leaves
\* no handler at work that could call the cloud, no PowerRequest and no
\* BootRequest.
C17_FailedCommandReported ==
  (last.kind = "count" /\ last.outcome \in {"lookup_error", "busy"})
    => /\ last.replied
       /\ \A c \in cmds : c.id # last.id
       /\ FindOne(power_requests, last.id) = None
       /\ \A b \in DOMAIN boot_requests :
            boot_requests[b].stage.power_request_id # last.id

\* C18: a call of poll() whose status query returns Starting, Stopping or
\* Deallocating issues no cloud action and, when its edit of the control
\* message succeeds, leaves the request in stage in_progress.
C18_NonTerminalWaits ==
  (last.kind = "poll" /\ last.res.failed # "status"
     /\ last.power \in {Starting, Stopping, Deallocating})
    => /\ last.res.action = "none"
       /\ last.res.shown = "wait"
            => last.res.data.stage.current = "in_progress"

\* A call of poll() on a request in stage requested or in_progress whose
\* status query returns the target power of the request.
PollObservesTarget ==
  /\ last.kind = "poll"
  /\ NonTerminalStage(last.before.stage.current)
  /\ last.res.failed # "status"
  /\ last.power = last.before.target_power

\* C19 as stated: such a call leaves the request in stage success with the
\* time recorded and issues no cloud action.
C19_TargetIsSuccess ==
  PollObservesTarget
    => /\ last.res.data.stage.current = "success"
       /\ last.res.data.stage.success = Some([time |-> now])
       /\ last.res.action = "none"

\* C19, amended: such a call issues no cloud action; when neither the
\* history query nor the edit of the control message fails it leaves the
\* request in stage success with the time recorded, otherwise in stage error.
C19_TargetIsSuccessUnlessFailure ==
  PollObservesTarget
    => /\ last.res.action = "none"
       /\ last.res.failed = "none"
            => /\ last.res.data.stage.current = "success"
               /\ last.res.data.stage.success = Some([time |-> now])
       /\ last.res.failed # "none"
            => last.res.data.stage.current = "error"

\* Reached: a tick of the poller on a request in_progress observes the
\* target power and marks the request success.
C19_Witness ==
  /\ PollObservesTarget
  /\ last.by = "poller"
  /\ last.before.stage.current = "in_progress"
  /\ last.res.failed = "none"
  /\ last.res.data.stage.current = "success"

\* C20: a call of poll() that observes no power state, or a terminal one
\* other than the target, and in which no call fails, issues the one cloud
\* action of its target (Running: beginStart, Stopped: beginPowerOff,
\* Deallocated: beginDeallocate) and leaves the request in stage in_progress.
C20_ActsOnceByTarget ==
  (last.kind = "poll" /\ last.res.failed = "none"
     /\ (\/ last.power = Undefined
         \/ (last.power \in TerminalPowers
             /\ last.power # last.before.target_power)))
    => /\ last.before.target_power = Running
            => last.res.action = "beginStart"
       /\ last.before.target_power = Stopped
            => last.res.action = "beginPowerOff"
       /\ last.before.target_power = Deallocated
            => last.res.action = "beginDeallocate"
       /\ last.res.data.stage.current = "in_progress"

\* C21: the poller calls poll() only on a request that its reload found in
\* stage requested or in_progress; a request stored in stage success or
\* error is never polled by Bot.pollOngoing.
C21_PollerPollsNonTerminalOnly ==
  (last.kind = "poll" /\ last.by = "poller")
    => NonTerminalStage(last.before.stage.current)

\* C22: the first call of poll() on a request (stage requested) whose status
\* query returns records the power it observed and the time as
\* stage.in_progress and takes the request out of stage requested; the
\* in_progress payload a stored request carries is never changed afterwards.
C22_StartRecordedOnce ==
  [][/\ (last'.kind = "poll" /\ last'.before.stage.current = "requested"
           /\ last'.res.failed # "status")
          => /\ last'.res.data.stage.in_progress
                  = Some([time |-> now', start_power |-> last'.power])
             /\ last'.res.data.stage.current # "requested"
     /\ \A i \in DOMAIN power_requests :
          power_requests[i].stage.in_progress # None
            => power_requests'[i].stage.in_progress
                 = power_requests[i].stage.in_progress]_vars

\* C23: every call of poll() inverts stage.flip_flop once, whatever the call
\* ends in; a request not polled yet carries TRUE; and what a save writes is
\* the request as poll() left it.  Hence the stored flag alternates over
\* ticks that follow one another, starting from TRUE.
C23_FlipFlopAlternates ==
  [][/\ last'.kind = "poll"
          => /\ last'.res.data.stage.flip_flop
                  = ~last'.before.stage.flip_flop
             /\ last'.before.stage.current = "requested"
                  => last'.before.stage.flip_flop
     /\ \A i \in DOMAIN power_requests' :
          power_requests'[i].stage.current = "requested"
            => power_requests'[i].stage.flip_flop
     /\ \A j \in jobs :
          (j.pc = "save" /\ j \notin jobs' /\ last'.kind # "restart")
            => FindOne(power_requests', j.id) = j.data
     /\ \A c \in cmds :
          (c.pc = "save" /\ c \notin cmds' /\ last'.kind # "restart")
            => FindOne(power_requests', c.id) = c.data]_vars

\* Reached: the second tick of a request ends in error and has inverted the
\* flag back to TRUE.
C23_Witness ==
  /\ last.kind = "poll"
  /\ last.by = "poller"
  /\ last.before.stage.current = "in_progress"
  /\ ~last.before.stage.flip_flop
  /\ last.res.failed # "none"
  /\ last.res.data.stage.flip_flop

\* C24: when BootRequest.initBoot returns, power_requests holds one more
\* request, of the boot request's VM, with target Running and stage
\* requested; the boot request is in stage booting and its power_request_id
\* is the identity of that request.
C24_InitBootCreatesChild ==
  [][\A c \in cmds :
       (c.pc = "initBoot" /\ c \notin cmds' /\ last'.kind # "restart")
         => /\ FindOne(power_requests, c.id) = None
            /\ Len(power_requests') = Len(power_requests) + 1
            /\ FindOne(power_requests', c.id)
                 = Some(NewPowerRequest(c.id, c.vm, Running))
            /\ \E b \in cmds' :
                 /\ b.id = c.id
                 /\ The(b.data).vm_cfg = c.vm
                 /\ The(b.data).stage.current = "booting"
                 /\ The(b.data).stage.power_request_id = c.id]_vars

\* Reached: initBoot has returned for a boot command given while the store
\* held an earlier request.
C24_Witness ==
  \E c \in cmds :
    /\ c.pc = "saveBoot"
    /\ Len(power_requests) = 2
    /\ StoredStage(power_requests, c.id) = "requested"

\* C25: power_requests holds at most one document per ctrl_msg_id, however
\* often a request is saved, and no step removes a document or gives a
\* stored document another identity.
C25_OneDocumentPerIdentity ==
  [][/\ \A i, k \in DOMAIN power_requests' :
          power_requests'[i].ctrl_msg_id = power_requests'[k].ctrl_msg_id
            => i = k
     /\ \A i \in DOMAIN power_requests :
          /\ i \in DOMAIN power_requests'
          /\ power_requests'[i].ctrl_msg_id
               = power_requests[i].ctrl_msg_id]_vars

\* Reached: two requests, one of them saved by initBoot and again by the
\* poller after a tick, each stored once.
C25_Witness ==
  /\ Len(power_requests) = 2
  /\ \E id \in DOMAIN saved :
       /\ saved[id] \in {"in_progress", "success", "error"}
       /\ \E b \in DOMAIN boot_requests :
            boot_requests[b].stage.power_request_id = id
       /\ Cardinality(PkMatches(power_requests, id)) = 1


\* C26: DiscordCtrlMsg.edit dispatches on the tag of the identity.  For an
\* interaction it fails exactly when the HTTP edit returns a status outside
\* 200-299; for a channel message it fails when the guild, the channel or
\* the message cannot be resolved or the channel is not a text channel; a
\* failing edit leaves the message as it was.
C26_EditFailsByStatusOnly ==
  last.kind = "edit" =>
    /\ last.ctrl_type = DISCORD_CTRL_INTERACTION
         => (last.res.threw
               <=> /\ last.env.http # None
                   /\ The(last.env.http) \notin 200..299)
    /\ last.ctrl_type = DISCORD_CTRL_TXT_MSG
         => ((~last.env.guild \/ ~last.env.channel \/ ~last.env.msg
                \/ ~last.env.isText) => last.res.threw)
    /\ last.res.threw => last.res.shown = last.shown

\* C26, amended: for an interaction the edit fails exactly when the HTTP
\* edit gets no response or returns a status outside 200-299; the rest as
\* stated, and an edit that does not fail shows the new content.
C26_EditFailsByStatusOrNoResponse ==
  last.kind = "edit" =>
    /\ last.ctrl_type = DISCORD_CTRL_INTERACTION
         => (last.res.threw
               <=> \/ last.env.http = None
                   \/ The(last.env.http) \notin 200..299)
    /\ last.ctrl_type = DISCORD_CTRL_TXT_MSG
         => ((~last.env.guild \/ ~last.env.channel \/ ~last.env.msg
                \/ ~last.env.isText) => last.res.threw)
    /\ last.res.threw => last.res.shown = last.shown
    /\ ~last.res.threw => last.res.shown = last.content

\* An interaction edit answered with a status just past the okay range fails
\* and leaves the message that an earlier edit had changed.
C26_Witness ==
  /\ last.kind = "edit"
  /\ last.ctrl_type = DISCORD_CTRL_INTERACTION
  /\ last.env.http = Some(300)
  /\ last.res.threw
  /\ last.shown = "progress"
  /\ last.content = "done"

\* C27: when the lookup of a configured VM fails during Bot.init, init fails
\* before the store connection is opened, before the command handler is
\* registered and before the poller interval is set; no tick runs and no
\* command is handled in that process.
C27_PreflightFailureStopsInit ==
  proc.preflightFailed =>
    /\ ~proc.mongo /\ ~proc.handler /\ ~proc.interval
    /\ proc.pc = "exited"
    /\ nextId = 0 /\ cmds = {} /\ jobs = {}
    /\ power_requests = <<>> /\ last = NoObs

\* Reached: the process ended on a failed lookup.
C27_Witness == proc.preflightFailed /\ proc.pc = "exited"

\* C28: within one tick of the poller the requests are advanced
\* independently: when the load, the poll or the save of one request fails,
\* the work of the same tick on every other request stays in flight (and so
\* goes on to poll and save).
C28_FailureLeavesOthersRunning ==
  [][last'.kind = "reject"
       => \A j \in jobs :
            (j.tick = last'.tick /\ j.id # last'.id) => j \in jobs']_vars

\* C29: a request ends a call of poll() in stage success only if the status
\* query of that call returned exactly its target power and the edit of the
\* control message of that call succeeded; never on an unknown, a
\* transitional or another terminal power.
C29_SuccessOnlyOnTarget ==
  (last.kind = "poll" /\ last.res.data.stage.current = "success")
    => /\ last.power = last.before.target_power
       /\ last.res.failed = "none"
       /\ last.res.shown = "done"

\* A document with both payloads, the success time not before the
\* in_progress time.
WellTimed(doc) ==
  /\ doc.stage.in_progress # None
  /\ doc.stage.success # None
  /\ The(doc.stage.in_progress).time \in Nat
  /\ The(doc.stage.in_progress).start_power \in PowerOrUndefined
  /\ The(doc.stage.success).time >= The(doc.stage.in_progress).time

\* C30: every PowerRequest document in stage success, stored or just
\* returned by poll(), carries an in_progress payload (start_power, time)
\* and a success payload with success.time >= in_progress.time, so every
\* document the history query can select yields a defined delta >= 0.
C30_SuccessDocsWellTimed ==
  /\ \A i \in DOMAIN power_requests :
       power_requests[i].stage.current = "success"
         => WellTimed(power_requests[i])
  /\ (last.kind = "poll" /\ last.res.data.stage.current = "success")
       => WellTimed(last.res.data)

\* The fields of a request that identify it and say what it asks for.
SameIdentity(a, b) ==
  /\ a.ctrl_msg_id = b.ctrl_msg_id
  /\ a.vm_cfg = b.vm_cfg
  /\ a.target_power = b.target_power

\* C31: poll() never changes ctrl_msg_id, vm_cfg or target_power of the
\* request, whatever its outcome, and no step changes them in a stored
\* document: after any number of ticks they are the values the request was
\* constructed with.
C31_PollKeepsIdentity ==
  [][/\ last'.kind = "poll" => SameIdentity(last'.res.data, last'.before)
     /\ \A i \in DOMAIN power_requests :
          /\ i \in DOMAIN power_requests'
          /\ SameIdentity(power_requests'[i], power_requests[i])]_vars

\* Reached: a later tick of the poller failed at the cloud action and its
\* result, stage error, is about to be saved over the stored document.
C31_Witness ==
  /\ last.kind = "poll" /\ last.by = "poller"
  /\ last.before.stage.current = "in_progress"
  /\ last.res.failed = "action"
  /\ last.res.data.stage.current = "error"
  /\ last.res.data.target_power = Running

\* C32: when the status query fails in the first call of poll() on a
\* request in stage requested, the stage goes from requested directly to
\* error; no in_progress payload and so no start_power is recorded and no
\* cloud action is issued by that call.
C32_StatusFailureSkipsInProgress ==
  (/\ last.kind = "poll"
   /\ last.before.stage.current = "requested"
   /\ last.res.failed = "status")
    => /\ last.res.data.stage.current = "error"
       /\ last.res.data.stage.in_progress = None
       /\ last.res.data.stage.error # None
       /\ last.res.action = "none"

\* Reached: the handler of a shutdown command polled its new request and
\* the status query failed.
C32_Witness ==
  /\ last.kind = "poll" /\ last.by = "cmd"
  /\ last.before.stage.current = "requested"
  /\ last.res.failed = "status"
  /\ last.res.data.stage.current = "error"

\* The first call of poll() on the request found the VM at the target: the
\* call that marks a request in_progress records the power it saw.
FirstTickSawTarget(data) ==
  /\ data.stage.in_progress # None
  /\ The(data.stage.in_progress).start_power = data.target_power

\* C33: if the VM already reports target_power in the first call of poll()
\* on a request, the request goes requested -> in_progress -> success
\* within that call and no cloud action is ever issued for that request.
\* Stated for every call of poll() on such a request, the first one and
\* every later one: the call issues no cloud action, and the first one
\* leaves the payload of in_progress behind on its way to success.
C33_AlreadyAtTargetNeverActs ==
  (last.kind = "poll" /\ FirstTickSawTarget(last.res.data))
    => /\ last.res.action = "none"
       /\ last.before.stage.current = "requested"
            => last.res.data.stage.in_progress
                 = Some([time |-> now, start_power |-> last.power])

\* The stored requests for the VM of that friendly name.
RequestsFor(name) ==
  {i \in DOMAIN power_requests : power_requests[i].vm_cfg.friendlyName = name}

\* C34: the dedup guard is per VM and is released by termination.  A command
\* is answered busy only when a request for its own VM is in progress, so a
\* request for another VM never gets it rejected; and when every request for
\* its VM has stage success or error the command is accepted.
C34_GuardPerVM ==
  last.kind = "count" =>
    /\ last.outcome = "busy"
         => \E i \in RequestsFor(last.vm) :
              power_requests[i].stage.current = "in_progress"
    /\ (/\ last.outcome # "lookup_error"
        /\ \A i \in RequestsFor(last.vm) :
             TerminalStage(power_requests[i].stage.current))
         => last.outcome = "accepted"

\* Reached: a command for serverB is accepted while a request for serverA
\* is in progress.
C34_Witness ==
  /\ last.kind = "count"
  /\ last.vm = ServerB.friendlyName
  /\ last.outcome = "accepted"
  /\ \E i \in RequestsFor(ServerA.friendlyName) :
       power_requests[i].stage.current = "in_progress"

\* The positions of the configured VMs of that friendly name.
NamedAt(cfg, name) == {i \in DOMAIN cfg.vms : cfg.vms[i].friendlyName = name}

\* C35: vmCfgByFriendlyName(cfg, name) returns the single configured VM
\* whose friendlyName equals name, and raises an error when no configured
\* VM or more than one configured VM has that name.
C35_LookupUnique ==
  last.kind = "lookup" =>
    LET at == NamedAt(last.cfg, last.name)
    IN  IF Cardinality(at) = 1
        THEN last.res = Some(last.cfg.vms[The(at)])
        ELSE last.res = None

\* Reached: two VMs are configured under the name asked for and the lookup
\* raised.
C35_Witness ==
  /\ last.kind = "lookup"
  /\ Cardinality(NamedAt(last.cfg, last.name)) = 2
  /\ Len(last.cfg.vms) = 3
  /\ last.res = None
====
